---- MODULE Spec2Model ----
(***************************************************************************)
(* Model of the layout-feature diagnosis scripts:                          *)
(*   scripts/analyze-layout-features.py   (extractor, per-site analysis,   *)
(*                                         cross-site comparison, traits)  *)
(*   archive/.../deep-compare-monzo-cnn.py (raw statistics analyzer)       *)
(*                                                                         *)
(* Numbers.  Feature values are Python floats nominally in [0, 1]; they    *)
(* are modelled as integers counting thousandths (0.831 is 831), so the    *)
(* cutoffs 0.3, 0.1, 0.7 ... are 300, 100, 700 ...  Floating point         *)
(* rounding of max - min is not modelled.                                  *)
(*                                                                         *)
(* Strings are TLA+ strings; Len, SubSeq and \o act on them as on          *)
(* sequences of characters.                                                *)
(***************************************************************************)
EXTENDS Integers, Sequences, FiniteSets, TLC

VARIABLES
    script,      \* what runs: "main", or a function called on its own
                 \* ("compare", "traits", "extract", "raw")
    pc,          \* position in that entry point
    sites_data,  \* main(): the dict site_name -> features, in insertion order
    failed,      \* main(): the sites whose analysis raised (the errors reported)
    out,         \* what compare_sites computed (table rows, insights, traits)
    vector_data, \* the document handed to extract_layout_features
    extracted,   \* what extract_layout_features returned (or that it raised)
    styles,      \* the element records handed to analyze_raw_elements
    meta,        \* the page metadata handed to analyze_raw_elements
    raw          \* what analyze_raw_elements returned (or that it raised)

vars == <<script, pc, sites_data, failed, out, vector_data, extracted, styles, meta, raw>>

----------------------------------------------------------------------------
(* Strings *)

\* Python's `kw in name` on strings.
Contains(name, kw) ==
    \E i \in 1..(Len(name) - Len(kw) + 1) : SubSeq(name, i, i + Len(kw) - 1) = kw

\* The characters the model's strings use, in code point order.
Alphabet == " -.0123456789ABCDEFGHIJKLMNOPQRSTUVWXYZ_abcdefghijklmnopqrstuvwxyz"

\* The position of each character in that order.
CodePoints ==
    [c \in {SubSeq(Alphabet, i, i) : i \in 1..Len(Alphabet)} |->
        CHOOSE i \in 1..Len(Alphabet) : SubSeq(Alphabet, i, i) = c]

Ord(c) == CodePoints[c]

\* The one element of a singleton.  Only({F(x) : x \in {e}}) is F(e) with e
\* evaluated once, where LET x == e IN F(x) evaluates e at each use of x.
Only(S) == CHOOSE x \in S : TRUE

\* Whether a < b from character i on, the characters before being equal.
RECURSIVE StrLessFrom(_, _, _)
StrLessFrom(a, b, i) ==
    IF i > Len(b) THEN FALSE
    ELSE IF i > Len(a) THEN TRUE
    ELSE IF SubSeq(a, i, i) # SubSeq(b, i, i)
         THEN Ord(SubSeq(a, i, i)) < Ord(SubSeq(b, i, i))
         ELSE StrLessFrom(a, b, i + 1)

\* Python's str `<`: lexicographic by code point, a proper prefix first.
StrLess(a, b) == StrLessFrom(a, b, 1)

\* The ascending list with x put in its place.
RECURSIVE InsertStr(_, _)
InsertStr(sorted, x) ==
    IF sorted = <<>> THEN <<x>>
    ELSE IF StrLess(x, Head(sorted)) THEN <<x>> \o sorted
    ELSE <<Head(sorted)>> \o InsertStr(Tail(sorted), x)

\* sorted(set_of_strings)
RECURSIVE Sorted(_)
Sorted(S) ==
    IF S = {} THEN <<>>
    ELSE Only({Only({InsertStr(rest, x) : rest \in {Sorted(S \ {x})}}) :
                 x \in {CHOOSE y \in S : TRUE}})

\* str(i) for the small indices the model uses.
Str(i) == <<"0", "1", "2", "3", "4", "5", "6", "7", "8", "9">>[i + 1]

----------------------------------------------------------------------------
(* Python values *)

\* A dict: a function on its keys.  d[k] = v
Put(d, k, v) == [x \in (DOMAIN d) \cup {k} |-> IF x = k THEN v ELSE d[x]]

EmptyDict == <<>>

\* d.get(k, default)
Get(d, k, default) == IF k \in DOMAIN d THEN d[k] ELSE default

\* max(values), min(values) of a non-empty list
Max(values) == CHOOSE m \in {values[k] : k \in 1..Len(values)} :
                   \A k \in 1..Len(values) : values[k] <= m

Min(values) == CHOOSE m \in {values[k] : k \in 1..Len(values)} :
                   \A k \in 1..Len(values) : m <= values[k]

\* values.index(v): the first position holding v (1-based here)
Index(values, v) == CHOOSE k \in 1..Len(values) :
                        values[k] = v /\ \A j \in 1..(k - 1) : values[j] # v

\* A JSON value of the interpretable mapping: a number, a string spelling a
\* number ("0.5"), or any other string.  v is the number in thousandths.
JsonNum(n) == [t |-> "num", v |-> n]
JsonNumStr(n) == [t |-> "numstr", v |-> n]
JsonText == [t |-> "text", v |-> 0]

\* float(x): the number itself, or the number a string spells; ValueError for
\* any other string.
FloatRaises(x) == x.t = "text"
Float(x) == x.v

----------------------------------------------------------------------------
(* extract_layout_features *)

Keywords == <<"hierarchy_depth", "weight_contrast",
              "density_score", "whitespace_ratio", "padding_consistency",
              "image_text_balance", "border_heaviness", "shadow_depth",
              "grouping_strength", "compositional_complexity",
              "saturation_energy", "role_distinction">>

\* The match taken as equality with a keyword.
AnyKeywordIn_exact(name) == \E k \in 1..Len(Keywords) : name = Keywords[k]

\* any(keyword in name for keyword in [...])
AnyKeywordIn(name) == \E k \in 1..Len(Keywords) : Contains(name, Keywords[k])

\* A vector document: globalStyleVec.interpretable and
\* globalStyleVec.metadata.featureNames, either of which may be absent.
Document(interp, names) ==
    [hasInterpretable |-> TRUE, interpretable |-> interp,
     hasFeatureNames |-> TRUE, featureNames |-> names]

\* What a call returned: the value, or that it raised.
Returned(v) == [raised |-> FALSE, value |-> v]
Raised == [raised |-> TRUE, value |-> EmptyDict]

\* The loop of lines 37-44, from index i (0-based, as enumerate counts).
RECURSIVE ExtractLoop(_, _, _, _)
ExtractLoop(interpretable, feature_names, i, features) ==
    IF i >= Len(feature_names) THEN Returned(features)
    ELSE LET name == feature_names[i + 1] IN
         IF AnyKeywordIn(name)
         THEN IF Str(i) \notin DOMAIN interpretable THEN Raised  \* KeyError
              ELSE IF FloatRaises(interpretable[Str(i)]) THEN Raised
              ELSE ExtractLoop(interpretable, feature_names, i + 1,
                               Put(features, name, Float(interpretable[Str(i)])))
         ELSE ExtractLoop(interpretable, feature_names, i + 1, features)

extract_layout_features(vd) ==
    IF ~vd.hasInterpretable \/ ~vd.hasFeatureNames THEN Raised  \* KeyError
    ELSE ExtractLoop(vd.interpretable, vd.featureNames, 0, EmptyDict)

----------------------------------------------------------------------------
(* analyze_raw_elements, boxes_overlap, calculate_std                      *)
(* (archive/scripts-removed-2025-10-09/deep-compare-monzo-cnn.py)          *)
(*                                                                         *)
(* An element record is a record holding the keys it has among bbox, tag,  *)
(* textContent and styles.  Pixel sizes are integers.  A quotient is kept  *)
(* as a fraction in lowest terms.  Padding values are tenths of a pixel.   *)

RECURSIVE GCD(_, _)
GCD(a, b) == IF b = 0 THEN a ELSE GCD(b, a % b)

\* n / d for d > 0 and n >= 0
Ratio(n, d) == [num |-> n \div GCD(n, d), den |-> d \div GCD(n, d)]

\* The `else 0` of a guarded quotient.
Zero == [num |-> 0, den |-> 1]

\* sum(values), taken as the sum of the two halves of the list.
RECURSIVE Sum(_)
Sum(values) ==
    IF values = <<>> THEN 0
    ELSE IF Len(values) = 1 THEN values[1]
    ELSE Sum(SubSeq(values, 1, Len(values) \div 2))
         + Sum(SubSeq(values, Len(values) \div 2 + 1, Len(values)))

\* s.replace('px', '') from character i on.
RECURSIVE ReplacePxFrom(_, _)
ReplacePxFrom(s, i) ==
    IF i > Len(s) THEN ""
    ELSE IF i < Len(s) /\ SubSeq(s, i, i + 1) = "px" THEN ReplacePxFrom(s, i + 2)
    ELSE SubSeq(s, i, i) \o ReplacePxFrom(s, i + 1)

\* s.replace('.', '') from character i on.
RECURSIVE RemoveDotsFrom(_, _)
RemoveDotsFrom(s, i) ==
    IF i > Len(s) THEN ""
    ELSE IF SubSeq(s, i, i) = "." THEN RemoveDotsFrom(s, i + 1)
    ELSE SubSeq(s, i, i) \o RemoveDotsFrom(s, i + 1)

\* s.split() from character i on, word being the token read so far.
RECURSIVE SplitFrom(_, _, _)
SplitFrom(s, i, word) ==
    IF i > Len(s) THEN (IF word = "" THEN <<>> ELSE <<word>>)
    ELSE IF SubSeq(s, i, i) = " "
         THEN (IF word = "" THEN <<>> ELSE <<word>>) \o SplitFrom(s, i + 1, "")
         ELSE SplitFrom(s, i + 1, word \o SubSeq(s, i, i))

Split(s) == SplitFrom(s, 1, "")

\* s.strip(): without its leading and trailing blanks.
RECURSIVE Strip(_)
Strip(s) ==
    IF s = "" THEN ""
    ELSE IF SubSeq(s, 1, 1) = " " THEN Strip(SubSeq(s, 2, Len(s)))
    ELSE IF SubSeq(s, Len(s), Len(s)) = " " THEN Strip(SubSeq(s, 1, Len(s) - 1))
    ELSE s

IsDigitChar(c) == \E d \in 0..9 : c = Str(d)

\* s.isdigit(): not empty, and digits only.
IsDigit(s) == Len(s) > 0 /\ \A i \in 1..Len(s) : IsDigitChar(SubSeq(s, i, i))

DigitValue(c) == CHOOSE d \in 0..9 : c = Str(d)

\* The number a string of digits spells ("" spells 0).
RECURSIVE Decimal(_)
Decimal(s) ==
    IF s = "" THEN 0
    ELSE 10 * Decimal(SubSeq(s, 1, Len(s) - 1)) + DigitValue(SubSeq(s, Len(s), Len(s)))

Dots(p) == {i \in 1..Len(p) : SubSeq(p, i, i) = "."}

\* float(p) of a token of digits and dots: ValueError with two or more dots.
FloatTokenRaises(p) == Cardinality(Dots(p)) > 1

\* float(p) in tenths, for a token of digits and at most one dot with at most
\* one digit after it.
FloatToken(p) ==
    IF Dots(p) = {} THEN 10 * Decimal(p)
    ELSE LET dot == CHOOSE i \in Dots(p) : TRUE IN
         10 * Decimal(SubSeq(p, 1, dot - 1)) + Decimal(SubSeq(p, dot + 1, Len(p)))

\* s.get('styles', {})
StylesOf(s) == IF "styles" \in DOMAIN s THEN s.styles ELSE EmptyDict

\* Lines 66-68.
IsImageElement(s) ==
    \/ "tag" \in DOMAIN s /\ s.tag \in {"img", "picture", "video"}
    \/ /\ "backgroundImage" \in DOMAIN StylesOf(s)
       /\ StylesOf(s).backgroundImage # ""
       /\ s.styles.backgroundImage # "none"

\* Lines 70-71.
IsTextElement(s) ==
    /\ "textContent" \in DOMAIN s
    /\ s.textContent # ""
    /\ Len(Strip(s.textContent)) > 0

\* s['bbox']['w'] * s['bbox']['h']
BoxArea(s) == s.bbox.w * s.bbox.h

\* Lines 74-76: the sum of the areas of a list of elements.
AreaSum(elements) == Sum([k \in 1..Len(elements) |-> BoxArea(elements[k])])

\* Lines 81-82: the tokens of an element's padding.
PaddingParts(s) ==
    Split(ReplacePxFrom(Get(StylesOf(s), "padding", "0px 0px 0px 0px"), 1))

\* Line 83: the tokens that are kept.
KeptToken(p) == IsDigit(RemoveDotsFrom(p, 1))

\* [float(p) for p in parts if ...] of line 83.
RECURSIVE FloatAll(_)
FloatAll(parts) ==
    IF parts = <<>> THEN <<>> ELSE <<FloatToken(Head(parts))>> \o FloatAll(Tail(parts))

\* Lines 79-83: the pooled padding values, or that a float() raised.
\* The list is taken as its two halves.
RECURSIVE PaddingValues(_)
PaddingValues(elements) ==
    IF elements = <<>> THEN [raised |-> FALSE, value |-> <<>>]
    ELSE IF Len(elements) = 1
    THEN LET kept == SelectSeq(PaddingParts(elements[1]), KeptToken) IN
         IF \E i \in 1..Len(kept) : FloatTokenRaises(kept[i])
         THEN [raised |-> TRUE, value |-> <<>>]
         ELSE [raised |-> FALSE, value |-> FloatAll(kept)]
    ELSE Only({IF first.raised THEN first
               ELSE IF rest.raised THEN rest
               ELSE [raised |-> FALSE, value |-> first.value \o rest.value] :
                 first \in {PaddingValues(SubSeq(elements, 1, Len(elements) \div 2))},
                 rest \in {PaddingValues(SubSeq(elements, Len(elements) \div 2 + 1,
                                                Len(elements)))}})

\* Lines 108-113.
boxes_overlap(bbox1, bbox2) ==
    ~(\/ bbox1.x + bbox1.w < bbox2.x
      \/ bbox2.x + bbox2.w < bbox1.x
      \/ bbox1.y + bbox1.h < bbox2.y
      \/ bbox2.y + bbox2.h < bbox1.y)

\* Line 87: styles[:100]
SampleAnchors == 100

\* Line 88: styles[i+1:min(i+20, len(styles))]
NeighbourWindow == 20

MinOf(a, b) == IF a < b THEN a ELSE b

\* The anchor compared against every later element, without the window.
RECURSIVE OverlapsOfAnchor_all(_, _, _)
OverlapsOfAnchor_all(elements, i, j) ==
    IF j >= Len(elements) THEN 0
    ELSE (IF boxes_overlap(elements[i + 1].bbox, elements[j + 1].bbox) THEN 1 ELSE 0)
         + OverlapsOfAnchor_all(elements, i, j + 1)

\* Lines 88-90 for the anchor at index i (0-based): the overlapping elements
\* among those at the indices j of the slice, from j on.
RECURSIVE OverlapsOfAnchor(_, _, _)
OverlapsOfAnchor(elements, i, j) ==
    IF j >= MinOf(i + NeighbourWindow, Len(elements)) THEN 0
    ELSE (IF boxes_overlap(elements[i + 1].bbox, elements[j + 1].bbox) THEN 1 ELSE 0)
         + OverlapsOfAnchor(elements, i, j + 1)

\* Lines 86-90: the count over the anchors, the elements at the indices
\* 0 .. min(100, n) - 1.
OverlappingPairs(elements) ==
    Sum([a \in 1..MinOf(SampleAnchors, Len(elements)) |->
            OverlapsOfAnchor(elements, a - 1, a)])

\* Lines 115-121, returned as the square of the standard deviation (the mean
\* squared deviation, divisor N): sum((N x - S)^2) / N^3 for the sum S of the
\* N values.
SquaredDeviations(values, n, total) ==
    Sum([k \in 1..Len(values) |->
            (n * values[k] - total) * (n * values[k] - total)])

\* The deviation taken with divisor N - 1.
calculate_std_sample(values) ==
    IF Len(values) <= 1 THEN Zero
    ELSE Ratio(SquaredDeviations(values, Len(values), Sum(values)),
               Len(values) * Len(values) * (Len(values) - 1))

calculate_std(values) ==
    IF values = <<>> THEN Zero
    ELSE Ratio(SquaredDeviations(values, Len(values), Sum(values)),
               Len(values) * Len(values) * Len(values))

\* What analyze_raw_elements gives back when it raises.
RawRaised(error) == [error |-> error]

\* Lines 58-106.  error is "" when the dict is returned.
analyze_raw_elements(elements, page) ==
    LET viewport_area == page.viewport.width * page.viewport.height
        img_elements == SelectSeq(elements, IsImageElement)
        text_elements == SelectSeq(elements, IsTextElement)
    IN  IF \E k \in 1..Len(elements) : "bbox" \notin DOMAIN elements[k]
        THEN RawRaised("KeyError")
        ELSE LET total_element_area == AreaSum(elements)
                 img_area == AreaSum(img_elements)
                 text_area == AreaSum(text_elements)
                 padding == PaddingValues(elements)
                 padding_values == padding.value
             IN  IF padding.raised THEN RawRaised("ValueError")
                 ELSE IF viewport_area = 0 THEN RawRaised("ZeroDivisionError")
                 ELSE [error |-> "",
                       total_elements |-> Len(elements),
                       viewport_area |-> viewport_area,
                       total_element_area |-> total_element_area,
                       density_ratio |-> Ratio(total_element_area, viewport_area),
                       img_elements |-> Len(img_elements),
                       text_elements |-> Len(text_elements),
                       img_area |-> img_area,
                       text_area |-> text_area,
                       img_text_ratio |-> IF text_area > 0
                                          THEN Ratio(img_area, text_area) ELSE Zero,
                       padding_values |-> padding_values,
                       padding_mean |-> IF padding_values # <<>>
                                        THEN Ratio(Sum(padding_values), Len(padding_values))
                                        ELSE Zero,
                       padding_std |-> IF padding_values # <<>>
                                       THEN calculate_std(padding_values) ELSE Zero,
                       overlapping_pairs |-> OverlappingPairs(elements)]

----------------------------------------------------------------------------
(* load_vector_data, analyze_site *)

\* A site's features as main() stores them: a dict, or None.
Features(d) == [none |-> FALSE, dict |-> d]
None == [none |-> TRUE, dict |-> EmptyDict]

\* Python truthiness of `features`: None and {} are falsy.
Truthy(features) == ~features.none /\ DOMAIN features.dict # {}

\* What the artifacts directory holds for a run: no vector_data.json, or a
\* parsed document.
NoArtifact == [exists |-> FALSE, data |-> Document(EmptyDict, <<>>)]
Artifact(doc) == [exists |-> TRUE, data |-> doc]

\* Lines 19-28: FileNotFoundError when the file does not exist.
load_vector_data(artifact) ==
    IF ~artifact.exists THEN [raised |-> TRUE, value |-> artifact.data]
    ELSE [raised |-> FALSE, value |-> artifact.data]

\* The body of the try block, lines 61-152.  print_feature_bar formats
\* features.get(key, 0) and raises for no number.
AnalyzeSiteTry(artifact) ==
    LET loaded == load_vector_data(artifact) IN
    IF loaded.raised THEN [raised |-> TRUE, value |-> None]
    ELSE LET features == extract_layout_features(loaded.value) IN
         IF features.raised THEN [raised |-> TRUE, value |-> None]
         ELSE [raised |-> FALSE, value |-> Features(features.value)]

\* analyze_site without its except clause: the exception leaves the function.
analyze_site_uncaught(artifact) == AnalyzeSiteTry(artifact)

\* Lines 58-156: every Exception of the body is caught, reported, and None
\* is returned.
analyze_site(artifact) ==
    LET r == AnalyzeSiteTry(artifact) IN
    IF r.raised THEN [raised |-> FALSE, value |-> None] ELSE r

----------------------------------------------------------------------------
(* compare_sites *)

\* sites_data is a list of (site_name, features) in insertion order.
Site(name, features) == [name |-> name, features |-> features]

feature_labels ==
    [f \in {"typo_hierarchy_depth", "typo_weight_contrast",
            "spacing_density_score", "spacing_whitespace_ratio",
            "spacing_padding_consistency", "spacing_image_text_balance",
            "shape_border_heaviness", "shape_shadow_depth",
            "shape_grouping_strength", "shape_compositional_complexity",
            "brand_color_saturation_energy", "brand_color_role_distinction"} |->
        CASE f = "typo_hierarchy_depth" -> "Hierarchy"
          [] f = "typo_weight_contrast" -> "Weight"
          [] f = "spacing_density_score" -> "Density"
          [] f = "spacing_whitespace_ratio" -> "Whitespace"
          [] f = "spacing_padding_consistency" -> "Padding"
          [] f = "spacing_image_text_balance" -> "Img/Text"
          [] f = "shape_border_heaviness" -> "Borders"
          [] f = "shape_shadow_depth" -> "Shadows"
          [] f = "shape_grouping_strength" -> "Grouping"
          [] f = "shape_compositional_complexity" -> "Complexity"
          [] f = "brand_color_saturation_energy" -> "Saturation"
          [] f = "brand_color_role_distinction" -> "ColorRole"]

\* Lines 165-170: the sorted union of the keys of the truthy mappings.
AllFeatures(sd) ==
    Sorted(UNION {DOMAIN sd[k].features.dict :
                    k \in {j \in 1..Len(sd) : Truthy(sd[j].features)}})

\* The sites that lack the feature left out of the vector.
Values_present(sd, feature) ==
    LET Has(k) == Truthy(sd[k].features) /\ feature \in DOMAIN sd[k].features.dict
        present == SelectSeq([k \in 1..Len(sd) |-> k], Has)
    IN  [j \in 1..Len(present) |-> sd[present[j]].features.dict[feature]]

\* Lines 197-202: one entry per site, 0.0 where the site's mapping is falsy
\* or lacks the feature.
Values(sd, feature) ==
    [k \in 1..Len(sd) |->
        IF Truthy(sd[k].features) /\ feature \in DOMAIN sd[k].features.dict
        THEN sd[k].features.dict[feature]
        ELSE 0]

\* The breakpoints taken inclusively.
Marker_inclusive(variance) ==
    IF variance >= 300 THEN "good"
    ELSE IF variance >= 100 THEN "some"
    ELSE "poor"

\* Lines 207-215: the marker of a row, by its variance:
\* "good" is the green check, "some" the yellow tilde, "poor" the red cross.
Marker(variance) ==
    IF variance > 300 THEN "good"
    ELSE IF variance > 100 THEN "some"
    ELSE "poor"

\* Lines 220-230: the insight of a row.
Insight(sd, label, values, variance) ==
    LET max_idx == Index(values, Max(values))
        min_idx == Index(values, Min(values))
    IN  [feature |-> label,
         max_site |-> sd[max_idx].name, max_val |-> values[max_idx],
         min_site |-> sd[min_idx].name, min_val |-> values[min_idx],
         variance |-> variance]

\* Line 220: whether a row is collected as an insight.
IsInsight(variance) == variance > 300

\* Lines 195-217: the table row of a feature.
Row(sd, feature) ==
    Only({[feature |-> feature,
           label |-> Get(feature_labels, feature, feature),
           values |-> values,
           variance |-> Max(values) - Min(values),
           marker |-> Marker(Max(values) - Min(values))] :
            values \in {Values(sd, feature)}})

\* The loop of lines 195-230 over all_features, from position k.
RECURSIVE CompareLoop(_, _, _, _, _)
CompareLoop(sd, all_features, k, rows, insights) ==
    IF k > Len(all_features) THEN [rows |-> rows, insights |-> insights]
    ELSE Only({CompareLoop(sd, all_features, k + 1, Append(rows, row),
                           IF IsInsight(row.variance)
                           THEN Append(insights,
                                       Insight(sd, row.label, row.values, row.variance))
                           ELSE insights) :
                 row \in {Row(sd, all_features[k])}})

\* Insert x into a list sorted by variance descending, after every element
\* whose variance is not smaller: a stable sort keeps equal keys in order.
RECURSIVE InsertByVariance(_, _)
InsertByVariance(sorted, x) ==
    IF sorted = <<>> THEN <<x>>
    ELSE IF Head(sorted).variance >= x.variance
         THEN <<Head(sorted)>> \o InsertByVariance(Tail(sorted), x)
         ELSE <<x>> \o sorted

\* The insights left in table order.
SortInsights_unsorted(insights) == insights

\* Line 235: insights.sort(key=variance, reverse=True), which is stable.
RECURSIVE SortInsights(_)
SortInsights(insights) ==
    IF insights = <<>> THEN <<>>
    ELSE InsertByVariance(SortInsights(SubSeq(insights, 1, Len(insights) - 1)),
                          insights[Len(insights)])

\* Lines 255-288: the seven threshold rules, in order.  high and low are the
\* cutoffs in thousandths.
TraitRules ==
    <<[key |-> "spacing_whitespace_ratio", high |-> 700, low |-> 400,
       above |-> "Generous whitespace", below |-> "Tight spacing"],
      [key |-> "spacing_density_score", high |-> 800, low |-> 500,
       above |-> "Dense content", below |-> "Minimal content"],
      [key |-> "shape_shadow_depth", high |-> 300, low |-> 100,
       above |-> "Elevated (shadows)", below |-> "Flat design"],
      [key |-> "shape_border_heaviness", high |-> 300, low |-> 100,
       above |-> "Heavy borders/dividers", below |-> "Minimal borders"],
      [key |-> "brand_color_saturation_energy", high |-> 500, low |-> 200,
       above |-> "Vibrant colors", below |-> "Muted palette"],
      [key |-> "spacing_padding_consistency", high |-> 700, low |-> 300,
       above |-> "Systematic spacing", below |-> "Variable spacing"],
      [key |-> "spacing_image_text_balance", high |-> 500, low |-> 100,
       above |-> "Image-heavy", below |-> "Text-focused"]>>

\* The cutoffs taken inclusively.
ApplyRule_inclusive(rule, features) ==
    IF Get(features, rule.key, 0) >= rule.high THEN <<rule.above>>
    ELSE IF Get(features, rule.key, 0) <= rule.low THEN <<rule.below>>
    ELSE <<>>

\* One if/elif of lines 255-288: the labels a rule appends.
ApplyRule(rule, features) ==
    IF Get(features, rule.key, 0) > rule.high THEN <<rule.above>>
    ELSE IF Get(features, rule.key, 0) < rule.low THEN <<rule.below>>
    ELSE <<>>

\* Lines 253-288: the traits of one site's (truthy) mapping.
RECURSIVE TraitsFrom(_, _)
TraitsFrom(k, features) ==
    IF k > Len(TraitRules) THEN <<>>
    ELSE ApplyRule(TraitRules[k], features) \o TraitsFrom(k + 1, features)

Traits(features) == TraitsFrom(1, features)

\* The summary without the `continue` of line 248: an entry for every site.
RECURSIVE PersonalitySummary_all(_, _)
PersonalitySummary_all(sd, k) ==
    IF k > Len(sd) THEN <<>>
    ELSE <<[site |-> sd[k].name, traits |-> Traits(sd[k].features.dict)]>>
         \o PersonalitySummary_all(sd, k + 1)

\* Lines 246-290: the summary, one entry per site whose mapping is truthy.
RECURSIVE PersonalitySummary(_, _)
PersonalitySummary(sd, k) ==
    IF k > Len(sd) THEN <<>>
    ELSE IF ~Truthy(sd[k].features) THEN PersonalitySummary(sd, k + 1)
    ELSE <<[site |-> sd[k].name, traits |-> Traits(sd[k].features.dict)]>>
         \o PersonalitySummary(sd, k + 1)

\* What compare_sites produced.  When it raised, nothing was computed.
NoOutput ==
    [called |-> FALSE, raised |-> FALSE,
     rows |-> <<>>, insights |-> <<>>, summary |-> <<>>]
CompareRaised ==
    [called |-> TRUE, raised |-> TRUE,
     rows |-> <<>>, insights |-> <<>>, summary |-> <<>>]

\* Lines 190 and 217 format site_names[0], [1], [2] and values[0], [1], [2]:
\* IndexError with fewer than three sites.
TableColumns == 3

\* Lines 158-290.
compare_sites(sd) ==
    IF Len(sd) < TableColumns THEN CompareRaised
    ELSE Only({[called |-> TRUE, raised |-> FALSE,
                rows |-> table.rows,
                insights |-> SortInsights(table.insights),
                summary |-> PersonalitySummary(sd, 1)] :
                 table \in {Only({CompareLoop(sd, all_features, 1, <<>>, <<>>) :
                                    all_features \in {AllFeatures(sd)}})}})

----------------------------------------------------------------------------
(* main() of analyze-layout-features.py *)

\* Lines 294-298: the site names, in order (the run ids select the artifact).
Sites == <<"Stripe", "Monzo", "CNN">>

\* Values the stored vectors take, in thousandths.
StoredValues == {200, 300, 831, 841}

\* The interpretable mappings over the first n indices with stored values.
StoredInterpretable(n) ==
    [{Str(i) : i \in 0..(n - 1)} -> {JsonNum(v) : v \in StoredValues}]

\* What artifacts/<run_id>/vector_data.json may hold for a site: nothing, a
\* document without its name list, a document whose interpretable mapping
\* lacks an index, or a well-formed document of two, one or no names.
ArtifactStore ==
    {NoArtifact,
     Artifact([hasInterpretable |-> TRUE, interpretable |-> EmptyDict,
               hasFeatureNames |-> FALSE, featureNames |-> <<>>]),
     Artifact(Document([k \in {"0"} |-> JsonNum(300)],
                       <<"spacing_density_score", "shape_shadow_depth">>))}
    \cup {Artifact(Document(interp, names)) :
            names \in {<<"color_count", "shape_shadow_depth">>}, 
            interp \in {[k \in {"0", "1"} |-> JsonNum(v)] : v \in StoredValues}}
    \cup {Artifact(Document(interp, names)) :
            names \in {<<"spacing_density_score", "shape_shadow_depth">>},
            interp \in StoredInterpretable(2)}
    \cup {Artifact(Document([k \in {"0"} |-> JsonNum(831)], <<"spacing_density_score">>))}
    \cup {Artifact(Document(EmptyDict, <<>>))}

\* The other entry points' variables while one entry point runs.
IdleDocument == Document(EmptyDict, <<>>)
IdleMeta == [viewport |-> [width |-> 0, height |-> 0]]

IdleExtract == vector_data = IdleDocument /\ extracted = Raised
IdleRaw == styles = <<>> /\ meta = IdleMeta /\ raw = RawRaised("")
IdleCompare == sites_data = <<>> /\ failed = {} /\ out = NoOutput

Init ==
    /\ script = "main"
    /\ pc = "analyze"
    /\ sites_data = <<>>
    /\ failed = {}
    /\ out = NoOutput
    /\ IdleExtract
    /\ IdleRaw

\* Lines 302-304: one iteration of the loop over sites.  An exception that
\* leaves analyze_site ends the run.
MainAnalyzeSite ==
    /\ script = "main"
    /\ pc = "analyze"
    /\ Len(sites_data) < Len(Sites)
    /\ \E artifact \in ArtifactStore :
         LET site_name == Sites[Len(sites_data) + 1]
             features == analyze_site(artifact)
         IN  /\ failed' = IF AnalyzeSiteTry(artifact).raised
                          THEN failed \cup {site_name} ELSE failed
             /\ IF features.raised
                THEN pc' = "crashed" /\ UNCHANGED sites_data
                ELSE /\ sites_data' = Append(sites_data, Site(site_name, features.value))
                     /\ pc' = IF Len(sites_data) + 1 = Len(Sites)
                              THEN "compare" ELSE "analyze"
    /\ UNCHANGED <<script, out, vector_data, extracted, styles, meta, raw>>

\* Lines 307-308.
MainCompare ==
    /\ script = "main"
    /\ pc = "compare"
    /\ IF Len(sites_data) > 1
       THEN LET result == compare_sites(sites_data) IN
            /\ out' = result
            /\ pc' = IF result.raised THEN "crashed" ELSE "done"
       ELSE pc' = "done" /\ UNCHANGED out
    /\ UNCHANGED <<script, sites_data, failed, vector_data, extracted, styles, meta, raw>>

Next == MainAnalyzeSite \/ MainCompare

Spec == Init /\ [][Next]_vars

\* main() is sequential code: it runs on until it returns or an exception
\* leaves it.
FairSpec == Init /\ [][Next]_vars /\ WF_vars(Next)

----------------------------------------------------------------------------
(* compare_sites called on its own (SpecCompare, SpecTraits) *)

\* The longest site list handed to compare_sites.
MaxSites == 3

SiteNames == <<"A", "B", "C", "D", "E">>

\* The per-site mappings handed to compare_sites: None, {}, and mappings of
\* one or two features.
ComparedFeatures ==
    {None, Features(EmptyDict),
     Features([f \in {"shape_shadow_depth"} |-> 1000]),
     Features([f \in {"shape_shadow_depth"} |-> 200]),
     Features([f \in {"shape_shadow_depth", "spacing_density_score"} |->
                  IF f = "shape_shadow_depth" THEN 1000 ELSE 600])}

\* The site lists of n sites.
SiteLists(n) ==
    {[k \in 1..n |-> Site(SiteNames[k], m[k])] : m \in [1..n -> ComparedFeatures]}

InitCompare ==
    /\ script = "compare"
    /\ pc = "call"
    /\ sites_data \in UNION {SiteLists(n) : n \in 2..MaxSites}
    /\ failed = {}
    /\ out = NoOutput
    /\ IdleExtract
    /\ IdleRaw

\* The cutoffs of the seven rules, and for each the values next to them.
RuleKeys == {TraitRules[k].key : k \in 1..Len(TraitRules)}
RuleOf(key) == TraitRules[CHOOSE k \in 1..Len(TraitRules) : TraitRules[k].key = key]
NearCutoffs(key) ==
    <<RuleOf(key).low - 1, RuleOf(key).low, RuleOf(key).high, RuleOf(key).high + 1>>

\* One site with a value next to a cutoff for each of the seven features,
\* beside a site with an empty mapping and a site that failed.
InitTraits ==
    /\ script = "traits"
    /\ pc = "call"
    /\ \E choice \in [RuleKeys -> 1..4] :
         sites_data = <<Site("A", Features([key \in RuleKeys |->
                                               NearCutoffs(key)[choice[key]]])),
                        Site("B", Features(EmptyDict)),
                        Site("C", None)>>
    /\ failed = {}
    /\ out = NoOutput
    /\ IdleExtract
    /\ IdleRaw

\* A call of compare_sites(sites_data).
CallCompareSites ==
    /\ script \in {"compare", "traits"}
    /\ pc = "call"
    /\ LET result == compare_sites(sites_data) IN
       /\ out' = result
       /\ pc' = IF result.raised THEN "raised" ELSE "returned"
    /\ UNCHANGED <<script, sites_data, failed, vector_data, extracted, styles, meta, raw>>

NextCompare == CallCompareSites

SpecCompare == InitCompare /\ [][NextCompare]_vars

SpecTraits == InitTraits /\ [][NextCompare]_vars

----------------------------------------------------------------------------
(* extract_layout_features called on its own (SpecExtract) *)

\* The longest featureNames list of a document.
MaxNames == 2

\* Names a document may carry: two canonical ones, one that contains two
\* keywords, one that contains none, and one that stops short of a keyword.
FeatureNameUniverse ==
    {"spacing_density_score", "shape_shadow_depth",
     "density_score_weight_contrast", "color_count", "shadow_dept"}

\* What interpretable may hold at an index; JsonMissing stands for no entry.
JsonMissing == [t |-> "missing", v |-> 0]
JsonUniverse == {JsonNum(200), JsonNum(841), JsonNumStr(500), JsonText, JsonMissing}

\* The keys str(0) .. str(n - 1).
IndexKeys(n) == {Str(i) : i \in 0..(n - 1)}

\* The mapping with the missing entries left out.
WithoutMissing(m) == [k \in {j \in DOMAIN m : m[j] # JsonMissing} |-> m[k]]

Documents ==
    {[hasInterpretable |-> FALSE, interpretable |-> EmptyDict,
      hasFeatureNames |-> TRUE, featureNames |-> <<"shape_shadow_depth">>],
     [hasInterpretable |-> TRUE, interpretable |-> [k \in {"0"} |-> JsonNum(200)],
      hasFeatureNames |-> FALSE, featureNames |-> <<>>]}
    \cup UNION {{Document(WithoutMissing(m), names) :
                    names \in [1..n -> FeatureNameUniverse],
                    m \in [IndexKeys(n) -> JsonUniverse]} : n \in 0..MaxNames}

InitExtract ==
    /\ script = "extract"
    /\ pc = "call"
    /\ vector_data \in Documents
    /\ extracted = Raised
    /\ IdleCompare
    /\ IdleRaw

\* A call of extract_layout_features(vector_data).
CallExtract ==
    /\ script = "extract"
    /\ pc = "call"
    /\ LET result == extract_layout_features(vector_data) IN
       /\ extracted' = result
       /\ pc' = IF result.raised THEN "raised" ELSE "returned"
    /\ UNCHANGED <<script, sites_data, failed, out, vector_data, styles, meta, raw>>

NextExtract == CallExtract

SpecExtract == InitExtract /\ [][NextExtract]_vars

----------------------------------------------------------------------------
(* analyze_raw_elements called on its own (SpecRaw) *)

\* The longest element list.
MaxElements == 2

Box(x, y, w, h) == [x |-> x, y |-> y, w |-> w, h |-> h]

\* The element records: the two halves of an 800x600 viewport, a box and its
\* copy, a box one pixel off the copy's right edge, and a record without a
\* bounding box; among them an image by tag, an image by background, text,
\* blank text, and paddings with kept, dropped and malformed tokens and with
\* no kept token at all.
ElementUniverse ==
    {[bbox |-> Box(0, 0, 400, 600)],
     [bbox |-> Box(400, 0, 400, 600), tag |-> "div", textContent |-> "",
      styles |-> [padding |-> "10px 20px 10px 20px"]],
     [bbox |-> Box(0, 0, 100, 100), tag |-> "img", textContent |-> "  ",
      styles |-> [backgroundImage |-> "none"]],
     [bbox |-> Box(0, 0, 100, 100), tag |-> "p", textContent |-> " hi ",
      styles |-> [padding |-> "auto 1.5px -5px . 8"]],
     [bbox |-> Box(101, 0, 100, 100), tag |-> "div",
      styles |-> [backgroundImage |-> "url(a.png)", padding |-> "1.2.3px"]],
     [bbox |-> Box(0, 0, 100, 100), styles |-> [padding |-> "auto 1em"]],
     [tag |-> "div", textContent |-> "no box"]}

Viewports ==
    {[viewport |-> [width |-> 800, height |-> 600]],
     [viewport |-> [width |-> 100, height |-> 100]],
     [viewport |-> [width |-> 0, height |-> 600]],
     [viewport |-> [width |-> 800, height |-> 0]]}

InitRaw ==
    /\ script = "raw"
    /\ pc = "call"
    /\ styles \in UNION {[1..n -> ElementUniverse] : n \in 0..MaxElements}
    /\ meta \in Viewports
    /\ raw = RawRaised("")
    /\ IdleCompare
    /\ IdleExtract

\* A call of analyze_raw_elements(styles, meta).
CallAnalyzeRaw ==
    /\ script = "raw"
    /\ pc = "call"
    /\ LET result == analyze_raw_elements(styles, meta) IN
       /\ raw' = result
       /\ pc' = IF result.error # "" THEN "raised" ELSE "returned"
    /\ UNCHANGED <<script, sites_data, failed, out, vector_data, extracted, styles, meta>>

NextRaw == CallAnalyzeRaw

SpecRaw == InitRaw /\ [][NextRaw]_vars

----------------------------------------------------------------------------
(* analyze_raw_elements called on long element lists (SpecOverlap) *)

\* The longest element list: past the 100 anchors and past the last anchor's
\* window.
MaxLongList == 120

\* The periods of the box layouts.
Periods == {1, 3, 19, 20}

\* n elements of 5x5 boxes, each with one padding value, laid out side by
\* side with a given period: the elements at positions i and j overlap iff
\* j - i is a multiple of the period.  Period 1 is n copies of one box; with
\* period 19 an anchor's last neighbour overlaps it, with period 20 the first
\* element past its window.
PeriodicElements(n, period) ==
    [k \in 1..n |-> [bbox |-> Box(10 * ((k - 1) % period), 0, 5, 5),
                     styles |-> [padding |-> "8px"]]]

InitOverlap ==
    /\ script = "raw"
    /\ pc = "call"
    /\ \E n \in 0..MaxLongList, period \in Periods :
         styles = PeriodicElements(n, period)
    /\ meta = [viewport |-> [width |-> 800, height |-> 600]]
    /\ raw = RawRaised("")
    /\ IdleCompare
    /\ IdleExtract

SpecOverlap == InitOverlap /\ [][NextRaw]_vars

----------------------------------------------------------------------------
(* Claims about the multi-site run (Spec, FairSpec) *)

\* The positions of the sites whose extraction succeeded.
Succeeded == {k \in 1..Len(sites_data) : ~sites_data[k].features.none}

\* A site's value for a feature, 0 where its mapping lacks it.
ValueAt(k, feature) == Get(sites_data[k].features.dict, feature, 0)

SetMax(S) == CHOOSE m \in S : \A x \in S : x <= m
SetMin(S) == CHOOSE m \in S : \A x \in S : m <= x

\* C1: in a multi-site run a site whose extraction failed contributes no
\* entry to any feature's value vector, so each row's vector has one entry
\* per successfully extracted site and its range and max/min sites are taken
\* over those sites only.
C1_FailedSiteExcluded ==
    (script = "main" /\ pc = "done") =>
        \A r \in 1..Len(out.rows) :
            LET row == out.rows[r]
                vals == {ValueAt(k, row.feature) : k \in Succeeded}
            IN  /\ Len(row.values) = Cardinality(Succeeded)
                /\ row.variance = SetMax(vals) - SetMin(vals)
                /\ \A i \in 1..Len(out.insights) :
                       out.insights[i].feature = row.label =>
                           /\ out.insights[i].max_site \notin failed
                           /\ out.insights[i].min_site \notin failed

\* C2: whenever the analysis of the site at some position has failed, the
\* run still goes on to analyze every site of the list and to execute the
\* comparison over the results; it ends normally.
C2_FailureDoesNotAbort ==
    (\E k \in 1..Len(Sites) : Sites[k] \in failed) ~>
        (pc = "done" /\ Len(sites_data) = Len(Sites) /\ out.called /\ ~out.raised)

\* A run in which the first site failed, the later two were analyzed and the
\* comparison was executed.
C2_Witness ==
    /\ pc = "done" /\ out.called
    /\ failed = {"Stripe"}
    /\ Len(sites_data) = 3
    /\ Truthy(sites_data[2].features) /\ Truthy(sites_data[3].features)

\* The keys of all sites' mappings.
AllKeys == UNION {DOMAIN sites_data[k].features.dict : k \in 1..Len(sites_data)}

\* C5: every feature key in the union of the sites' keys gets exactly one row
\* and one tier, decided by the range v = max - min of its value vector:
\* good iff v > 0.30, some iff 0.10 < v <= 0.30, poor iff v <= 0.10.
C5_OneTierByRange ==
    (script = "main" /\ pc = "done") =>
        /\ {out.rows[r].feature : r \in 1..Len(out.rows)} = AllKeys
        /\ Len(out.rows) = Cardinality(AllKeys)
        /\ \A r \in 1..Len(out.rows) :
            LET row == out.rows[r]
                vals == {row.values[k] : k \in 1..Len(row.values)}
                v == SetMax(vals) - SetMin(vals)
            IN  /\ row.variance = v
                /\ row.marker \in {"good", "some", "poor"}
                /\ row.marker = "good" <=> v > 300
                /\ row.marker = "some" <=> (100 < v /\ v <= 300)
                /\ row.marker = "poor" <=> v <= 100

\* A finished run with one feature whose range is exactly 0.30 (tier some)
\* and one whose range is exactly 0.10 (tier poor).
C5_Witness ==
    /\ script = "main" /\ pc = "done"
    /\ \E r \in 1..Len(out.rows) :
           out.rows[r].variance = 300 /\ out.rows[r].marker = "some"
    /\ \E r \in 1..Len(out.rows) :
           out.rows[r].variance = 100 /\ out.rows[r].marker = "poor"

C15_Holders(feature) ==
    {k \in 1..Len(sites_data) : feature \in DOMAIN sites_data[k].features.dict}

\* C15: for every feature key in the union of the sites' keys the value
\* vector has one entry per site in site order, the site's value where its
\* mapping has the key and 0.0 where it has not; a missing key does not
\* raise; a feature held by one site only, with a value > 0.30, is a good
\* differentiation whose min site lacks the feature, at 0.0.
C15_MissingIsZero ==
    (script = "main" /\ pc \in {"done", "crashed"} /\ Len(sites_data) = Len(Sites)) =>
        /\ pc = "done" /\ ~out.raised
        /\ \A f \in AllKeys : \E r \in 1..Len(out.rows) :
             LET row == out.rows[r] IN
             /\ row.feature = f
             /\ \A q \in 1..Len(out.rows) : out.rows[q].feature = f => q = r
             /\ DOMAIN row.values = 1..Len(sites_data)
             /\ \A k \in 1..Len(sites_data) :
                    row.values[k] = IF k \in C15_Holders(f)
                                    THEN sites_data[k].features.dict[f] ELSE 0
             /\ (\E k \in C15_Holders(f) :
                    C15_Holders(f) = {k} /\ sites_data[k].features.dict[f] > 300)
                 => /\ row.marker = "good"
                    /\ \E i \in 1..Len(out.insights) :
                         /\ out.insights[i].feature = row.label
                         /\ out.insights[i].min_val = 0
                         /\ \E j \in (1..Len(sites_data)) \ C15_Holders(f) :
                                sites_data[j].name = out.insights[i].min_site

\* A finished run in which only the first site holds the density score:
\* the second site lacks the key, the third failed, both read 0.0 and the
\* second is the min site.
C15_Witness ==
    /\ script = "main" /\ pc = "done"
    /\ failed = {"CNN"}
    /\ "spacing_density_score" \notin DOMAIN sites_data[2].features.dict
    /\ Truthy(sites_data[2].features)
    /\ \E r \in 1..Len(out.rows) :
         /\ out.rows[r].feature = "spacing_density_score"
         /\ out.rows[r].values = <<831, 0, 0>>
         /\ out.rows[r].marker = "good"
    /\ \E i \in 1..Len(out.insights) :
         /\ out.insights[i].feature = "Density"
         /\ out.insights[i].min_site = "Monzo"
         /\ out.insights[i].min_val = 0

\* The low-side label of each rule, by its feature.
C16_LowLabels ==
    {<<"spacing_whitespace_ratio", "Tight spacing">>,
     <<"spacing_density_score", "Minimal content">>,
     <<"shape_shadow_depth", "Flat design">>,
     <<"shape_border_heaviness", "Minimal borders">>,
     <<"brand_color_saturation_energy", "Muted palette">>,
     <<"spacing_padding_consistency", "Variable spacing">>,
     <<"spacing_image_text_balance", "Text-focused">>}

\* C16: in the personality summary a feature absent from a site's non-empty
\* mapping reads as 0 and gets its rule's low-side label (no shadow_depth key
\* gives 'Flat design'); a site whose mapping is empty or whose extraction
\* failed gets no trait labels at all.
C16_AbsentFeatureIsLow ==
    (script = "main" /\ pc = "done") =>
        \A k \in 1..Len(sites_data) :
            LET entries == {i \in 1..Len(out.summary) :
                              out.summary[i].site = sites_data[k].name}
                mapping == sites_data[k].features.dict
            IN  IF sites_data[k].features.none \/ DOMAIN mapping = {}
                THEN entries = {}
                ELSE /\ Cardinality(entries) = 1
                     /\ \A i \in entries : \A rule \in C16_LowLabels :
                          rule[1] \notin DOMAIN mapping =>
                              \E t \in 1..Len(out.summary[i].traits) :
                                  out.summary[i].traits[t] = rule[2]

\* A finished run whose first site holds the density score only (no
\* shadow_depth key: 'Flat design' and the other five low labels), whose
\* second site has an empty mapping and whose third failed.
C16_Witness ==
    /\ script = "main" /\ pc = "done"
    /\ failed = {"CNN"}
    /\ sites_data[2].features = Features(EmptyDict)
    /\ DOMAIN sites_data[1].features.dict = {"spacing_density_score"}
    /\ out.summary = <<[site |-> "Stripe",
                        traits |-> <<"Tight spacing", "Dense content", "Flat design",
                                     "Minimal borders", "Muted palette",
                                     "Variable spacing", "Text-focused">>]>>

----------------------------------------------------------------------------
(* Claims about compare_sites as a function (SpecCompare, SpecTraits) *)

Called == pc \in {"returned", "raised"}

\* C4: for every input of two or more sites of which at least one has a
\* non-empty mapping the comparator completes without failing; when every
\* mapping is empty it completes too, with no insight and no classified
\* feature.
C4_ComparatorCompletes ==
    (script = "compare" /\ Called /\ Len(sites_data) >= 2) =>
        /\ pc = "returned" /\ ~out.raised
        /\ (\A k \in 1..Len(sites_data) : ~Truthy(sites_data[k].features)) =>
               (out.insights = <<>> /\ out.rows = <<>>)

\* C7: for two or more sites, a feature with the same value in every site
\* has range 0.0, is classified poor and is in no insight.
C7_IdenticalValueIsPoor ==
    (script = "compare" /\ Called /\ Len(sites_data) >= 2) =>
        \A f \in AllKeys :
            (/\ \A k \in 1..Len(sites_data) : f \in DOMAIN sites_data[k].features.dict
             /\ \A j, k \in 1..Len(sites_data) :
                    sites_data[j].features.dict[f] = sites_data[k].features.dict[f])
            => /\ \E r \in 1..Len(out.rows) :
                      /\ out.rows[r].feature = f
                      /\ out.rows[r].variance = 0
                      /\ out.rows[r].marker = "poor"
               /\ \A i \in 1..Len(out.insights) :
                      out.insights[i].feature # Get(feature_labels, f, f)

\* The cutoffs of the claim, in thousandths, in rule order.
C10_Cutoffs ==
    <<[key |-> "spacing_whitespace_ratio", high |-> 700, low |-> 400],
      [key |-> "spacing_density_score", high |-> 800, low |-> 500],
      [key |-> "shape_shadow_depth", high |-> 300, low |-> 100],
      [key |-> "shape_border_heaviness", high |-> 300, low |-> 100],
      [key |-> "brand_color_saturation_energy", high |-> 500, low |-> 200],
      [key |-> "spacing_padding_consistency", high |-> 700, low |-> 300],
      [key |-> "spacing_image_text_balance", high |-> 500, low |-> 100]>>

\* The rule a label belongs to.
C10_RuleOfLabel(label) ==
    CHOOSE k \in 1..Len(TraitRules) :
        label \in {TraitRules[k].above, TraitRules[k].below}

\* C10: for one site's mapping each of the seven rules appends its high
\* label iff the value is > the high cutoff, its low label iff the value is
\* < the low cutoff and nothing in between; at most one label per rule, at
\* most seven in total, in rule order.
C10_TraitLabels ==
    (script = "traits" /\ Called) =>
        /\ pc = "returned"
        /\ Len(out.summary) >= 1
        /\ out.summary[1].site = sites_data[1].name
        /\ LET traits == out.summary[1].traits
               labels == {traits[i] : i \in 1..Len(traits)}
               value(k) == sites_data[1].features.dict[C10_Cutoffs[k].key]
           IN  /\ Len(traits) <= 7
               /\ \A k \in 1..7 :
                    /\ TraitRules[k].above \in labels <=> value(k) > C10_Cutoffs[k].high
                    /\ TraitRules[k].below \in labels <=> value(k) < C10_Cutoffs[k].low
               /\ \A i \in 1..Len(traits) :
                    \E k \in 1..7 : traits[i] \in {TraitRules[k].above, TraitRules[k].below}
               /\ \A i, j \in 1..Len(traits) :
                    i < j => C10_RuleOfLabel(traits[i]) < C10_RuleOfLabel(traits[j])

\* A site exactly at the whitespace high cutoff and at the border low
\* cutoff (no label for either), above the density cutoff and below the
\* shadow cutoff.
C10_Witness ==
    /\ script = "traits" /\ pc = "returned"
    /\ sites_data[1].features.dict["spacing_whitespace_ratio"] = 700
    /\ sites_data[1].features.dict["shape_border_heaviness"] = 100
    /\ out.summary[1].traits = <<"Dense content", "Flat design">>

----------------------------------------------------------------------------
(* Claims about extract_layout_features (SpecExtract) *)

\* A well-formed document: both parts present, one numeric entry per name.
C9_WellFormed ==
    /\ vector_data.hasInterpretable /\ vector_data.hasFeatureNames
    /\ DOMAIN vector_data.interpretable = IndexKeys(Len(vector_data.featureNames))
    /\ \A k \in DOMAIN vector_data.interpretable : vector_data.interpretable[k].t = "num"

\* The twelve canonical keywords.
C9_Canonical ==
    {"hierarchy_depth", "weight_contrast", "density_score", "whitespace_ratio",
     "padding_consistency", "image_text_balance", "border_heaviness",
     "shadow_depth", "grouping_strength", "compositional_complexity",
     "saturation_energy", "role_distinction"}

\* A name with a canonical keyword as a substring.
C9_HasKeyword(name) ==
    \E kw \in C9_Canonical : \E a \in 1..Len(name) :
        a + Len(kw) - 1 <= Len(name) /\ SubSeq(name, a, a + Len(kw) - 1) = kw

\* C9: for a well-formed document the result has at most len(featureNames)
\* entries, its keys are exactly the names containing a canonical keyword
\* (a name with several keywords once, a name with none not at all), and each
\* key's value is interpretable[str(i)] for an index i that carries the key.
C9_ExtractedSubset ==
    (script = "extract" /\ Called /\ C9_WellFormed) =>
        LET names == vector_data.featureNames
            features == extracted.value
        IN  /\ pc = "returned" /\ ~extracted.raised
            /\ Cardinality(DOMAIN features) <= Len(names)
            /\ DOMAIN features = {names[i] : i \in {j \in 1..Len(names) :
                                                       C9_HasKeyword(names[j])}}
            /\ \A key \in DOMAIN features : \E i \in 0..(Len(names) - 1) :
                   /\ names[i + 1] = key
                   /\ features[key] = vector_data.interpretable[Str(i)].v

\* A well-formed document whose second name contains two keywords and whose
\* first contains none: one entry, with the value at the second index.
C9_Witness ==
    /\ script = "extract" /\ pc = "returned" /\ C9_WellFormed
    /\ vector_data.featureNames = <<"color_count", "density_score_weight_contrast">>
    /\ vector_data.interpretable["0"] = JsonNum(200)
    /\ extracted.value = [k \in {"density_score_weight_contrast"} |-> 841]

\* C12: when interpretable has no entry for str(i) for some index i of
\* featureNames, whether or not the name at i has a canonical keyword, or when
\* interpretable or featureNames is absent, the extractor fails and returns
\* no mapping.
C12_MissingEntryFails ==
    (/\ script = "extract" /\ Called
     /\ \/ ~vector_data.hasInterpretable
        \/ ~vector_data.hasFeatureNames
        \/ \E i \in 0..(Len(vector_data.featureNames) - 1) :
               Str(i) \notin DOMAIN vector_data.interpretable)
        => (pc = "raised" /\ extracted.raised)

----------------------------------------------------------------------------
(* Claims about analyze_raw_elements (SpecRaw, SpecOverlap) *)

AllHaveBox == \A k \in 1..Len(styles) : "bbox" \in DOMAIN styles[k]

ViewportArea == meta.viewport.width * meta.viewport.height

\* C3: when every element has a bounding box and the viewport area is 0, the
\* analyzer does not raise and returns density_ratio = 0.
C3_ZeroViewportGivesZero ==
    (script = "raw" /\ Called /\ AllHaveBox /\ ViewportArea = 0) =>
        /\ pc = "returned"
        /\ raw.error = ""
        /\ raw.density_ratio = Zero

\* Two boxes that abut: one's far edge is the other's near edge, on x or y.
C8_Abut(b1, b2) ==
    \/ b1.x + b1.w = b2.x
    \/ b2.x + b2.w = b1.x
    \/ b1.y + b1.h = b2.y
    \/ b2.y + b2.h = b1.y

\* C8: two elements that tile an 800x600 viewport side by side give
\* density_ratio 1.0 and overlap count 0; in general two boxes that merely
\* abut are not counted as an overlapping pair, and two identical boxes are.
C8_AbuttingNotCounted ==
    (script = "raw" /\ pc = "returned" /\ Len(styles) = 2) =>
        /\ (/\ styles[1].bbox = Box(0, 0, 400, 600)
            /\ styles[2].bbox = Box(400, 0, 400, 600)
            /\ meta.viewport = [width |-> 800, height |-> 600])
           => (raw.density_ratio = [num |-> 1, den |-> 1] /\ raw.overlapping_pairs = 0)
        /\ C8_Abut(styles[1].bbox, styles[2].bbox) => raw.overlapping_pairs = 0
        /\ styles[1].bbox = styles[2].bbox => raw.overlapping_pairs = 1

\* The index pairs (i, j), 0-based, with 0 <= i < min(100, n) and
\* i + 1 <= j < min(i + 20, n).
C11_WindowPairs(n) ==
    UNION {{<<i, j>> : j \in (i + 1)..(SetMin({i + 20, n}) - 1)} :
             i \in 0..(SetMin({100, n}) - 1)}

\* C11: for a list of n elements the overlap count is the number of index
\* pairs (i, j) with 0 <= i < min(100, n) and i + 1 <= j < min(i + 20, n)
\* whose boxes overlap; it is at most 1900.
C11_OverlapCountIsWindowed ==
    (script = "raw" /\ pc = "returned") =>
        /\ raw.overlapping_pairs =
               Cardinality({p \in C11_WindowPairs(Len(styles)) :
                               boxes_overlap(styles[p[1] + 1].bbox, styles[p[2] + 1].bbox)})
        /\ raw.overlapping_pairs <= 1900

\* 119 copies of one box: each of the 100 anchors has 19 neighbours, all
\* overlapping, and the 18 elements after the anchors add nothing.
C11_Witness ==
    /\ script = "raw" /\ pc = "returned"
    /\ Len(styles) = 119
    /\ \A k \in 1..Len(styles) : styles[k].bbox = styles[1].bbox
    /\ raw.overlapping_pairs = 1900

\* A token that is a number once its unit suffix is stripped: digits with at
\* most one point.
C13_IsNumber(p) == IsDigit(RemoveDotsFrom(p, 1)) /\ Cardinality(Dots(p)) <= 1

\* The number of numeric tokens in the paddings of the elements from k on.
RECURSIVE C13_NumericTokens(_)
C13_NumericTokens(k) ==
    IF k > Len(styles) THEN 0
    ELSE Len(SelectSeq(PaddingParts(styles[k]), C13_IsNumber)) + C13_NumericTokens(k + 1)

\* C13: padding parsing never fails: a token that is not a number after its
\* unit suffix is stripped ('auto', '-5px', '1.2.3px', '.', '1em') is dropped
\* and every other token is pooled.
C13_PaddingNeverFails ==
    (script = "raw" /\ Called /\ AllHaveBox /\ ViewportArea # 0) =>
        /\ pc = "returned"
        /\ raw.error = ""
        /\ Len(raw.padding_values) = C13_NumericTokens(1)

\* The pool an element contributes, in tenths of a pixel.
C14_PoolOf(s) ==
    LET padding == Get(StylesOf(s), "padding", "0px 0px 0px 0px") IN
    CASE padding = "0px 0px 0px 0px" -> <<0, 0, 0, 0>>
      [] padding = "10px 20px 10px 20px" -> <<100, 200, 100, 200>>
      [] padding = "auto 1.5px -5px . 8" -> <<15, 80>>
      [] padding = "auto 1em" -> <<>>

RECURSIVE C14_Pool(_)
C14_Pool(k) == IF k > Len(styles) THEN <<>> ELSE C14_PoolOf(styles[k]) \o C14_Pool(k + 1)

RECURSIVE C14_SumOfSquares(_)
C14_SumOfSquares(values) ==
    IF values = <<>> THEN 0
    ELSE Head(values) * Head(values) + C14_SumOfSquares(Tail(values))

\* C14: the padding statistics are taken over the one pool of all elements'
\* parsed values (four zeros for an element without a padding style):
\* padding_mean is sum / N, padding_std is the square root of the mean
\* squared deviation with divisor N (sum of squares / N - mean^2), and both
\* are 0 for an empty pool; '10px 20px 10px 20px' gives mean 15 and
\* deviation 5.
C14_PaddingStatistics ==
    (script = "raw" /\ pc = "returned") =>
        LET pool == C14_Pool(1)
            N == Len(pool)
            S == Sum(pool)
        IN  /\ raw.padding_values = pool
            /\ N = 0 => raw.padding_mean = Zero /\ raw.padding_std = Zero
            /\ N > 0 =>
                 /\ raw.padding_mean.num * N = S * raw.padding_mean.den
                 /\ raw.padding_std.num * N * N =
                        (N * C14_SumOfSquares(pool) - S * S) * raw.padding_std.den
            /\ pool = <<100, 200, 100, 200>> =>
                 /\ raw.padding_mean = [num |-> 150, den |-> 1]
                 /\ raw.padding_std = [num |-> 50 * 50, den |-> 1]

\* The padding of the example pooled with the four zeros of an element
\* without a padding style: mean 7.5 and squared deviation 68.75.
C14_Witness ==
    /\ script = "raw" /\ pc = "returned"
    /\ raw.padding_values = <<0, 0, 0, 0, 100, 200, 100, 200>>
    /\ raw.padding_mean = [num |-> 75, den |-> 1]
    /\ raw.padding_std = [num |-> 6875, den |-> 1]

====
